---- MODULE Spec2Model ----
(***************************************************************************)
(* litmus/libdir/_aarch64/self.c : support for self-modifying code.        *)
(*                                                                         *)
(* selfbar(p) is the AArch64 sequence  dc cvau,p ; dsb sy ; ic ivau,p ;    *)
(* dsb sy ; isb.  It is modelled on a machine with a coherent write-back   *)
(* data cache in front of the point of unification (mem), one instruction  *)
(* cache and one prefetch buffer per core.  getret() is modelled by        *)
(* assembling its inline sequence into instruction words and executing     *)
(* them one instruction at a time.                                         *)
(*                                                                         *)
(* A 32-bit instruction word is the pair <<high half, low half>> of its    *)
(* two 16-bit halves.  <<>> stands for "no word".                          *)
(***************************************************************************)
EXTENDS Integers, Sequences, FiniteSets, TLC

\* ------------------------------------------------------------- bounds
NCores == 2
NAddr == 2
\* calls of getret() a thread makes in one run
MaxCalls == 2

Cores == 0..(NCores - 1)
\* word indices of the buffer that receives synthesized instructions
Addr == 0..(NAddr - 1)

NoWord == <<>>

\* ------------------------------------------- A64 instruction encodings
\* ret Xn : 1101011 0010 11111 000000 Rn 00000   (0xD65F0000 | Rn << 5)
EncRet(rn) == <<54879, rn * 32>>

\* adr Xd, . + off : 0 immlo 10000 immhi Rd, off = immhi:immlo (bytes)
EncAdr(rd, off) ==
  <<((off % 4) * 8192) + 4096 + ((off \div 4) \div 2048),
    (((off \div 4) % 2048) * 32) + rd>>

\* ldr Wt, [Xn, #off] : 10 111 0 01 01 imm12 Rn Rt, imm12 = off / 4
EncLdrW(rt, rn, off) ==
  <<47424 + ((off \div 4) \div 64), (((off \div 4) % 64) * 1024) + (rn * 32) + rt>>

\* b . + off : 000101 imm26, imm26 = off / 4
EncB(off) == <<5120 + ((off \div 4) \div 65536), (off \div 4) % 65536>>

\* nop : 0xD503201F
EncNop == <<54531, 8223>>

\* The decoder of the core: the fields of an instruction word.
Decode(w) ==
  IF w = NoWord THEN [op |-> "undef"]
  ELSE IF w[1] = 54879 /\ w[2] % 32 = 0 /\ w[2] < 1024
    THEN [op |-> "ret", rn |-> w[2] \div 32]
  ELSE IF w[1] >= 32768 THEN
    (IF w[1] \div 64 = 741
       THEN [op |-> "ldr", rt |-> w[2] % 32, rn |-> (w[2] \div 32) % 32,
             off |-> 4 * (((w[1] % 64) * 64) + (w[2] \div 1024))]
     ELSE IF w = EncNop THEN [op |-> "nop"]
     ELSE [op |-> "undef"])
  ELSE IF (w[1] \div 256) % 32 = 16
    THEN [op |-> "adr", rd |-> w[2] % 32,
          off |-> (4 * (((w[1] % 256) * 2048) + (w[2] \div 32)))
                   + ((w[1] \div 8192) % 4)]
  ELSE IF w[1] \div 1024 = 5
    THEN [op |-> "b", off |-> 4 * (((w[1] % 1024) * 65536) + w[2])]
  ELSE IF w[1] \div 32 = 336 /\ w[2] \div 32 = 31
    THEN [op |-> "mov", rd |-> w[2] % 32, rm |-> w[1] % 32]
  ELSE [op |-> "undef"]

\* ---------------------------------------------------- getret(): its code
\* The registers the compiler may give to the two "=&r" outputs (distinct:
\* both are early-clobber), and the addresses it may place the function at.
RegPool == {0, 1}
Bases == {0, 64}
Sites == {s \in [base : Bases, x1 : RegPool, x2 : RegPool] : s.x1 # s.x2}

\* Variants of the inline sequence with one slip each: adr aimed at the
\* second label; label "0" after the ret; the branch over the ret left out.
GetretAsmAdrEnd(x1, x2) ==
  << <<"adr", x1, "1">>,
     <<"ldr", x2, x1>>,
     <<"b", "1">>,
     <<"label", "0">>,
     <<"ret">>,
     <<"label", "1">> >>

GetretAsmLabelAfter(x1, x2) ==
  << <<"adr", x1, "0">>,
     <<"ldr", x2, x1>>,
     <<"b", "1">>,
     <<"ret">>,
     <<"label", "0">>,
     <<"label", "1">> >>

GetretAsmNoBranch(x1, x2) ==
  << <<"adr", x1, "0">>,
     <<"ldr", x2, x1>>,
     <<"label", "0">>,
     <<"ret">>,
     <<"label", "1">> >>

\* The inline sequence, line by line; labels are items of their own.
GetretAsm(x1, x2) ==
  << <<"adr", x1, "0">>,
     <<"ldr", x2, x1>>,
     <<"b", "1">>,
     <<"label", "0">>,
     <<"ret">>,
     <<"label", "1">> >>

IsIns(item) == item[1] # "label"

\* Byte offset of item i of the sequence: four bytes per instruction before it.
OffsetOf(prog, i) == 4 * Cardinality({j \in 1..(i - 1) : IsIns(prog[j])})

\* A forward reference "0f", "1f" is the offset of the label's definition.
LabelOff(prog, name) ==
  OffsetOf(prog, CHOOSE i \in 1..Len(prog) : prog[i] = <<"label", name>>)

\* The assembler: the word of instruction item i.
Assemble(prog, i) ==
  LET it == prog[i]
      here == OffsetOf(prog, i)
  IN CASE it[1] = "adr" -> EncAdr(it[2], LabelOff(prog, it[3]) - here)
       [] it[1] = "ldr" -> EncLdrW(it[2], it[3], 0)
       [] it[1] = "b" -> EncB(LabelOff(prog, it[2]) - here)
       [] it[1] = "ret" -> EncRet(30)

RECURSIVE Image(_, _)
Image(prog, i) ==
  IF i > Len(prog) THEN <<>>
  ELSE IF IsIns(prog[i]) THEN <<Assemble(prog, i)>> \o Image(prog, i + 1)
  ELSE Image(prog, i + 1)

\* Variant: the address register is returned instead of r.
EpilogueWrongReg(s) ==
  IF s.x1 = 0 THEN <<EncRet(30)>> ELSE <<<<10752 + s.x1, 992>>, EncRet(30)>>

\* "return r": the result goes to w0 (mov w0, w<r>, unless r is w0) and the
\* function returns.
Epilogue(s) == IF s.x2 = 0 THEN <<EncRet(30)>> ELSE <<<<10752 + s.x2, 992>>, EncRet(30)>>

\* The words of the function at site s, and the word at byte address a.
\* (f @@ <<>> is f, held as an explicit table.)
BodyTable == [s \in Sites |-> Image(GetretAsm(s.x1, s.x2), 1) \o Epilogue(s)] @@ <<>>
Body(s) == BodyTable[s]
InBody(s, a) == a >= s.base /\ a < s.base + (4 * Len(Body(s))) /\ a % 4 = 0
TextAt(s, a) == IF InBody(s, a) THEN Body(s)[((a - s.base) \div 4) + 1] ELSE NoWord

\* Address of the ret of the inline sequence at site s.
EmbeddedRetTable ==
  [s \in Sites |->
     LET prog == GetretAsm(s.x1, s.x2)
     IN s.base + OffsetOf(prog, CHOOSE i \in 1..Len(prog) : prog[i] = <<"ret">>)]
  @@ <<>>
EmbeddedRet(s) == EmbeddedRetTable[s]

\* The decoder, tabulated over the words that are ever fetched.
FetchedWords ==
  {NoWord, EncNop} \cup UNION {{Body(s)[i] : i \in 1..Len(Body(s))} : s \in Sites}
DecodeTable == [w \in FetchedWords |-> Decode(w)] @@ <<>>

\* ------------------------------------------- the core executing code
\* A register holds <<>> (never written), <<n>> (an address) or a word.
\* cpu record: site (the copy of getret() the thread is in), ppc (byte
\* address of the next instruction), regs, lr (x30), sp, ldaddr (address of
\* the last data load, -1 if none), executed (addresses of the instructions
\* executed since the call), run (FALSE once control is back in the caller).
\* What the caller holds at a call: the return address and its stack pointer.
CallerCtx == [lr |-> 1024, sp |-> 4096]

\* bl getret : control enters the function, x30 holds the return address.
Entry(s) ==
  [site |-> s, ppc |-> s.base, regs |-> [r \in RegPool |-> <<>>],
   lr |-> CallerCtx.lr, sp |-> CallerCtx.sp,
   ldaddr |-> -1, executed |-> <<>>, run |-> TRUE]

\* The core executes instruction word w at c.ppc.  Data loads read the text
\* of the function: instruction memory is addressable as data.
ExecIns(c, w) ==
  LET d == DecodeTable[w]
      seen == [c EXCEPT !.executed = Append(@, c.ppc)]
  IN CASE d.op = "adr" ->
            [seen EXCEPT !.regs[d.rd] = <<c.ppc + d.off>>, !.ppc = @ + 4]
       [] d.op = "ldr" ->
            [seen EXCEPT !.regs[d.rt] = TextAt(c.site, c.regs[d.rn][1] + d.off),
                         !.ldaddr = c.regs[d.rn][1] + d.off,
                         !.ppc = @ + 4]
       [] d.op = "b" -> [seen EXCEPT !.ppc = @ + d.off]
       [] d.op = "mov" -> [seen EXCEPT !.regs[d.rd] = c.regs[d.rm], !.ppc = @ + 4]
       [] d.op = "nop" -> [seen EXCEPT !.ppc = @ + 4]
       [] d.op = "ret" /\ d.rn = 30 -> [seen EXCEPT !.ppc = c.lr, !.run = FALSE]
       [] OTHER -> [seen EXCEPT !.ppc = -1, !.run = FALSE, !.regs[0] = <<>>]

\* blr into the buffer word a: control enters it as it enters a function.
BufferEntry(a) ==
  [Entry(CHOOSE s \in Sites : TRUE) EXCEPT !.ppc = 2048 + (4 * a)]

\* One instruction of getret(), fetched from the function's own text.
CpuStep(c) == ExecIns(c, TextAt(c.site, c.ppc))

\* getret() at site s: run to the return, the value is w0.
RECURSIVE RunCpu(_)
RunCpu(c) == IF c.run THEN RunCpu(CpuStep(c)) ELSE c
getret(s) == RunCpu(Entry(s)).regs[0]

\* ------------------------------------------------------- machine state
VARIABLES
  mem,        \* [Addr -> word] : memory at the point of unification
  dcache,     \* [Addr -> word or NoWord] : the coherent data cache, by line
  icache,     \* [Cores -> [Addr -> word or NoWord]] : instruction caches, by line
  pipe,       \* [Cores -> <<>> or <<a, word>>] : prefetched, not yet executed
  pendClean,  \* [Cores -> SUBSET lines] : dc cvau issued, not yet complete
  pendInval,  \* [Cores -> SUBSET lines] : ic ivau issued, not yet complete
  pc,         \* [Cores -> position of the core in its current operation]
  arg,        \* [Cores -> Addr] : the p of the selfbar in progress
  trace,      \* [Cores -> Seq(<<instruction, address>>)] of the call in progress
  synced,     \* [Addr -> BOOLEAN] : a selfbar(a) called after the last write ended
  isbed,      \* [Addr -> SUBSET Cores] : cores that ran isb since that selfbar
  obs,        \* the instruction fetch made by the last step, <<>> if it made none
  cpu,        \* [Cores -> cpu record] : the thread's last or current getret() call
  phase,      \* [Cores -> "idle", "run"] : whether the thread is inside getret()
  results     \* [Cores -> Seq(word)] : what the thread's calls of getret() returned

cvars == <<mem, dcache, icache, pipe, pendClean, pendInval, pc, arg, trace,
           synced, isbed, obs>>
pvars == <<cpu, phase, results>>
vars == <<cvars, pvars>>

\* The instruction words the generator stores: what getret() yields, and nop.
BufWords == {getret(s) : s \in Sites} \cup {EncNop}

\* dc cvau / ic ivau act on the cache line containing p: two words to a line.
LineOf(a) == a \div 2
Lines == {LineOf(a) : a \in Addr}

\* Racing writes to one word are serialized by the caller: one writer per word.
Owner(a) == a % NCores

\* Variants of selfbar with one slip each: the clean after the invalidate;
\* no clean; no instruction at all.
SelfbarCodeSwapped == <<"ic ivau", "dsb sy", "dc cvau", "dsb sy", "isb">>
SelfbarCodeNoClean == <<"dsb sy", "ic ivau", "dsb sy", "isb">>
SelfbarCodeEmpty == <<>>

\* selfbar's instruction sequence, in program order.
SelfbarCode == <<"dc cvau", "dsb sy", "ic ivau", "dsb sy", "isb">>

\* pc[c] = 0 : outside selfbar; k in 1..Len(SelfbarCode) : about to execute the
\* k-th instruction; Len(SelfbarCode) + 1 : at the closing brace.
InSelfbar(c) == pc[c] # 0
Idle(c) == pc[c] = 0

\* What a data load from a returns.
DataLoad(a) == IF dcache[a] # NoWord THEN dcache[a] ELSE mem[a]

\* What the instruction side of core c reads at a: its cache, else memory.
IFetch(c, a) == IF icache[c][a] # NoWord THEN icache[c][a] ELSE mem[a]

\* The word core c executes when control reaches a.
FetchWord(c, a) ==
  IF pipe[c] # <<>> /\ pipe[c][1] = a THEN pipe[c][2] ELSE IFetch(c, a)

\* --------------------------------------------- effects of the instructions
\* What a write-back of line l leaves at the point of unification.
WriteBack(l) ==
  [a \in Addr |-> IF LineOf(a) = l /\ dcache[a] # NoWord THEN dcache[a] ELSE mem[a]]

\* Variant: the line is invalidated without being written back.
CleanLineDrop(l) ==
  [m |-> mem, d |-> [a \in Addr |-> IF LineOf(a) = l THEN NoWord ELSE dcache[a]]]

\* dc cvau: the line is written back to the point of unification and stays
\* valid in the data cache.
CleanLine(l) == [m |-> WriteBack(l), d |-> dcache]

\* ic ivau: the line leaves the instruction caches of all cores (the
\* invalidation is broadcast to the Inner Shareable domain).
InvalLine(l) ==
  [t \in Cores |-> [a \in Addr |-> IF LineOf(a) = l THEN NoWord ELSE icache[t][a]]]

\* dsb sy: completes when the maintenance the core issued is complete.
DsbReady(c) == pendClean[c] = {} /\ pendInval[c] = {}

\* Variant: isb leaves the prefetched instructions in place.
IsbFlushNone(c) == pipe

\* isb: the instructions the core has prefetched are discarded.
IsbFlush(c) == [pipe EXCEPT ![c] = <<>>]

\* Variant: a store overwrites its whole line with the stored word.
StoreWordLine(a, w) ==
  [b \in Addr |-> IF LineOf(b) = LineOf(a) THEN w ELSE dcache[b]]

\* A store allocates the line in the data cache (write-back, write-allocate).
StoreWord(a, w) ==
  [b \in Addr |-> IF b = a THEN w
                  ELSE IF LineOf(b) = LineOf(a) THEN DataLoad(b)
                  ELSE dcache[b]]

\* ------------------------------------------------------------------ actions
\* The generator stores instruction word w at a.
Write(c, a, w) ==
  /\ Idle(c) /\ c = Owner(a)
  /\ dcache' = StoreWord(a, w)
  /\ synced' = [synced EXCEPT ![a] = FALSE]
  /\ isbed' = [isbed EXCEPT ![a] = {}]
  /\ UNCHANGED <<mem, icache, pipe, pendClean, pendInval, pc, arg, trace, pvars>>
  /\ obs' = <<>>

\* selfbar(p) is entered.
SelfbarCall(c, p) ==
  /\ Idle(c) /\ c = Owner(p)
  /\ pc' = [pc EXCEPT ![c] = 1]
  /\ arg' = [arg EXCEPT ![c] = p]
  /\ trace' = [trace EXCEPT ![c] = <<>>]
  /\ UNCHANGED <<mem, dcache, icache, pipe, pendClean, pendInval, synced, isbed, pvars>>
  /\ obs' = <<>>

\* The core executes the next instruction of selfbar.
SelfbarStep(c) ==
  /\ pc[c] \in 1..Len(SelfbarCode)
  /\ LET ins == SelfbarCode[pc[c]]
         l == LineOf(arg[c])
     IN /\ (ins = "dsb sy") => DsbReady(c)
        /\ pendClean' = IF ins = "dc cvau"
                          THEN [pendClean EXCEPT ![c] = @ \cup {l}] ELSE pendClean
        /\ pendInval' = IF ins = "ic ivau"
                          THEN [pendInval EXCEPT ![c] = @ \cup {l}]
                          ELSE pendInval
        /\ pipe' = IF ins = "isb" THEN IsbFlush(c) ELSE pipe
        /\ isbed' = IF ins = "isb"
                      THEN [a \in Addr |-> IF synced[a] THEN isbed[a] \cup {c} ELSE isbed[a]]
                      ELSE isbed
        /\ trace' = [trace EXCEPT ![c] = Append(@, <<ins, arg[c]>>)]
  /\ pc' = [pc EXCEPT ![c] = @ + 1]
  /\ UNCHANGED <<mem, dcache, icache, arg, synced, pvars>>
  /\ obs' = <<>>

\* selfbar returns.
SelfbarReturn(c) ==
  /\ pc[c] = Len(SelfbarCode) + 1
  /\ pc' = [pc EXCEPT ![c] = 0]
  /\ trace' = [trace EXCEPT ![c] = <<>>]
  /\ synced' = [synced EXCEPT ![arg[c]] = TRUE]
  /\ isbed' = [isbed EXCEPT ![arg[c]] = (IF synced[arg[c]] THEN @ ELSE {}) \cup {c}]
  /\ UNCHANGED <<mem, dcache, icache, pipe, pendClean, pendInval, arg, pvars>>
  /\ obs' = <<>>

\* A clean issued by c completes.
CompleteClean(c, l) ==
  /\ l \in pendClean[c]
  /\ mem' = CleanLine(l).m
  /\ dcache' = CleanLine(l).d
  /\ pendClean' = [pendClean EXCEPT ![c] = @ \ {l}]
  /\ UNCHANGED <<icache, pipe, pendInval, pc, arg, trace, synced, isbed, pvars>>
  /\ obs' = <<>>

\* An invalidation issued by c completes.
CompleteInval(c, l) ==
  /\ l \in pendInval[c]
  /\ icache' = InvalLine(l)
  /\ pendInval' = [pendInval EXCEPT ![c] = @ \ {l}]
  /\ UNCHANGED <<mem, dcache, pipe, pendClean, pc, arg, trace, synced, isbed, pvars>>
  /\ obs' = <<>>

\* The data cache evicts a line: written back and dropped.
DcacheEvict(l) ==
  /\ \E a \in Addr : LineOf(a) = l /\ dcache[a] # NoWord
  /\ mem' = WriteBack(l)
  /\ dcache' = [a \in Addr |-> IF LineOf(a) = l THEN NoWord ELSE dcache[a]]
  /\ UNCHANGED <<icache, pipe, pendClean, pendInval, pc, arg, trace, synced, isbed, pvars>>
  /\ obs' = <<>>

\* The instruction cache of c fills a line from the point of unification.
\* (A cached line or a prefetched word is a past content of mem: dropping it
\* early leads only to states reached by not having fetched it.)
IcacheFill(c, l) ==
  /\ \E a \in Addr : LineOf(a) = l /\ icache[c][a] = NoWord
  /\ icache' = [icache EXCEPT ![c] =
                  [a \in Addr |-> IF LineOf(a) = l THEN mem[a] ELSE icache[c][a]]]
  /\ UNCHANGED <<mem, dcache, pipe, pendClean, pendInval, pc, arg, trace, synced, isbed, pvars>>
  /\ obs' = <<>>

\* Core c fetches the instruction at a ahead of executing it.
Prefetch(c, a) ==
  /\ pipe[c] = <<>>
  /\ pipe' = [pipe EXCEPT ![c] = <<a, IFetch(c, a)>>]
  /\ UNCHANGED <<mem, dcache, icache, pendClean, pendInval, pc, arg, trace, synced, isbed, pvars>>
  /\ obs' = <<>>

\* Control of core c is transferred to a: the instruction there is executed.
\* obs = <<c, a, word executed, word a data load returns, synced[a], c \in isbed[a]>>
Exec(c, a) ==
  /\ Idle(c)
  /\ obs' = <<c, a, FetchWord(c, a), DataLoad(a), synced[a], c \in isbed[a]>>
  /\ pipe' = IF pipe[c] # <<>> /\ pipe[c][1] = a THEN [pipe EXCEPT ![c] = <<>>] ELSE pipe
  /\ UNCHANGED <<mem, dcache, icache, pendClean, pendInval, pc, arg, trace, synced, isbed, pvars>>

MachineInit ==
  /\ mem \in [Addr -> BufWords]
  /\ dcache = [a \in Addr |-> NoWord]
  /\ icache = [c \in Cores |-> [a \in Addr |-> NoWord]]
  /\ pipe = [c \in Cores |-> <<>>]
  /\ pendClean = [c \in Cores |-> {}]
  /\ pendInval = [c \in Cores |-> {}]
  /\ pc = [c \in Cores |-> 0]
  /\ arg = [c \in Cores |-> c % NAddr]
  /\ trace = [c \in Cores |-> <<>>]
  /\ synced = [a \in Addr |-> FALSE]
  /\ isbed = [a \in Addr |-> {}]
  /\ obs = <<>>

Next ==
  \/ \E c \in Cores, a \in Addr, w \in BufWords : Write(c, a, w)
  \/ \E c \in Cores, p \in Addr : SelfbarCall(c, p)
  \/ \E c \in Cores : SelfbarStep(c)
  \/ \E c \in Cores : SelfbarReturn(c)
  \/ \E c \in Cores, l \in Lines : CompleteClean(c, l)
  \/ \E c \in Cores, l \in Lines : CompleteInval(c, l)
  \/ \E l \in Lines : DcacheEvict(l)
  \/ \E c \in Cores, l \in Lines : IcacheFill(c, l)
  \/ \E c \in Cores, a \in Addr : Prefetch(c, a)
  \/ \E c \in Cores, a \in Addr : Exec(c, a)

\* ------------------------------------------------ threads calling getret()
\* A thread outside getret().
NoCall == [Entry(CHOOSE s \in Sites : TRUE) EXCEPT !.run = FALSE]

ProbeInit ==
  /\ cpu = [t \in Cores |-> NoCall]
  /\ phase = [t \in Cores |-> "idle"]
  /\ results = [t \in Cores |-> <<>>]

\* Thread t calls getret(), compiled at site s.
GetretCall(t, s) ==
  /\ phase[t] = "idle" /\ Len(results[t]) < MaxCalls
  /\ cpu' = [cpu EXCEPT ![t] = Entry(s)]
  /\ phase' = [phase EXCEPT ![t] = "run"]
  /\ UNCHANGED <<results, cvars>>

\* Thread t executes one instruction of getret().
GetretStep(t) ==
  /\ phase[t] = "run" /\ cpu[t].run
  /\ cpu' = [cpu EXCEPT ![t] = CpuStep(cpu[t])]
  /\ UNCHANGED <<phase, results, cvars>>

\* Control is back in the caller of getret(), the value in w0.
GetretReturn(t) ==
  /\ phase[t] = "run" /\ ~cpu[t].run
  /\ results' = [results EXCEPT ![t] = Append(@, cpu[t].regs[0])]
  /\ phase' = [phase EXCEPT ![t] = "idle"]
  /\ cpu' = [cpu EXCEPT ![t] = NoCall]
  /\ UNCHANGED cvars

Init == MachineInit /\ ProbeInit

Spec == Init /\ [][Next]_vars

ProbeNext ==
  \/ \E t \in Cores, s \in Sites : GetretCall(t, s)
  \/ \E t \in Cores : GetretStep(t)
  \/ \E t \in Cores : GetretReturn(t)

\* The threads that call getret() touch no buffer.
InitProbe == Init /\ mem = [a \in Addr |-> EncNop]

SpecProbe == InitProbe /\ [][ProbeNext]_vars

\* ======================================================= properties
\* Reading of the fetch record obs.
ObsCore == obs[1]
ObsAddr == obs[2]
ObsWord == obs[3]
ObsData == obs[4]
ObsSynced == obs[5]
ObsIsbed == obs[6]

FiveSteps(p) ==
  << <<"dc cvau", p>>, <<"dsb sy", p>>, <<"ic ivau", p>>, <<"dsb sy", p>>, <<"isb", p>> >>

AtReturn(c) == pc[c] = Len(SelfbarCode) + 1

\* C2: every call of selfbar(p) executes dc cvau p, dsb sy, ic ivau p, dsb sy,
\* isb, in this order: what it has executed so far is always the beginning of
\* that sequence, one instruction per step, and at its return it is all five.
C2_FiveStepsInOrder ==
  \A c \in Cores :
    InSelfbar(c) =>
      /\ Len(trace[c]) = pc[c] - 1
      /\ Len(trace[c]) <= 5
      /\ trace[c] = SubSeq(FiveSteps(arg[c]), 1, Len(trace[c]))
      /\ AtReturn(c) => trace[c] = FiveSteps(arg[c])

\* C2 case: a call of selfbar is at its return.
C2_Witness == \E c \in Cores : AtReturn(c) /\ Len(trace[c]) = 5

GetretWords == {getret(s) : s \in Sites}

\* C4: the word getret() returns is written to the buffer, selfbar is called
\* on its address and the buffer is called: control is back in the caller at
\* the return address, lr, sp and the registers as they were at the call, and
\* nothing was loaded.
C4_RoundTrip ==
  (/\ obs # <<>>
   /\ ObsCore = Owner(ObsAddr)
   /\ ObsSynced
   /\ ObsData \in GetretWords)
  => LET in == BufferEntry(ObsAddr)
         out == ExecIns(in, ObsWord)
     IN /\ ~out.run
        /\ out.ppc = CallerCtx.lr
        /\ out.lr = in.lr
        /\ out.sp = in.sp
        /\ out.regs = in.regs
        /\ out.ldaddr = in.ldaddr
        /\ out.executed = <<in.ppc>>

\* C4 case: the buffer held another word before, the word of getret() was
\* written and synchronized, and the writer has called the buffer.
C4_Witness ==
  /\ obs # <<>>
  /\ ObsCore = Owner(ObsAddr)
  /\ ObsSynced
  /\ ObsData \in GetretWords
  /\ ~ExecIns(BufferEntry(ObsAddr), ObsWord).run

\* A step of selfbar's cache maintenance: an instruction of it, or the
\* completion of a clean or of an invalidation it issued.
MaintStep == pc' # pc \/ pendClean' # pendClean \/ pendInval' # pendInval

\* C6: no step of selfbar changes what a data load returns, at any address.
C6_MemoryUnchanged ==
  [][MaintStep => \A a \in Addr : DataLoad(a)' = DataLoad(a)]_vars

\* C6 case: a selfbar is at its return, its line written back and still
\* held by the data cache.
C6_Witness ==
  \E c \in Cores :
    /\ AtReturn(c)
    /\ dcache[arg[c]] # NoWord
    /\ mem[arg[c]] = dcache[arg[c]]

\* No copy on the instruction side of core c disagrees with the data at a.
Stable(c, a) ==
  /\ mem[a] = DataLoad(a)
  /\ icache[c][a] \in {NoWord, DataLoad(a)}
  /\ (pipe[c] # <<>> /\ pipe[c][1] = a) => pipe[c][2] = DataLoad(a)

\* C7: with each word written by one thread only, a thread that executes its
\* word after its own selfbar executes the word it wrote, under every
\* interleaving; and no step that leaves the word's data alone (a write or a
\* selfbar of another thread, on another address) makes it stale again.
C7_DisjointThreads ==
  /\ []((obs # <<>> /\ ObsCore = Owner(ObsAddr) /\ ObsSynced) => ObsWord = ObsData)
  /\ [][\A a \in Addr :
          (Stable(Owner(a), a) /\ DataLoad(a)' = DataLoad(a)) => Stable(Owner(a), a)']_vars

\* C7 case: a thread executes its synchronized word while the word of another
\* thread, in the same line, is written and not yet written back.
C7_Witness ==
  /\ obs # <<>> /\ ObsCore = Owner(ObsAddr) /\ ObsSynced
  /\ \E b \in Addr :
       /\ b # ObsAddr /\ LineOf(b) = LineOf(ObsAddr)
       /\ Owner(b) # ObsCore
       /\ dcache[b] # NoWord /\ dcache[b] # mem[b]

\* C8: between a write and a selfbar on its address the writer can fetch the
\* stale word (the witness); once selfbar has returned, the word its fetch
\* would return is the written one.
C8_BarrierNeeded ==
  \A a \in Addr : synced[a] => FetchWord(Owner(a), a) = DataLoad(a)

\* C8 case: the writer's fetch returns the word from before its write, no
\* selfbar having been called since.
C8_Witness ==
  /\ obs # <<>> /\ ObsCore = Owner(ObsAddr)
  /\ ~ObsSynced
  /\ ObsWord # ObsData

\* ------------------------------------------------ properties of getret()
\* The encoding of "ret" with the default link register x30: 0xD65F03C0.
RetX30 == <<54879, 960>>

Returning(t) == phase[t] = "run" /\ ~cpu[t].run
OpAt(s, a) == DecodeTable[TextAt(s, a)].op

\* Address of the label "0" of the inline sequence at site s.
LabelAddrTable ==
  [s \in Sites |-> s.base + LabelOff(GetretAsm(s.x1, s.x2), "0")] @@ <<>>
LabelAddr(s) == LabelAddrTable[s]

\* C3: getret() returns the word stored where the ret of its inline sequence
\* is, read by a data load from that address: the encoding of ret x30, and
\* not the word of the adr, ldr or b before it.
C3_ReturnsEmbeddedRet ==
  \A t \in Cores :
    /\ Returning(t) =>
         LET s == cpu[t].site
         IN /\ cpu[t].ldaddr = EmbeddedRet(s)
            /\ cpu[t].regs[0] = TextAt(s, EmbeddedRet(s))
            /\ cpu[t].regs[0] = RetX30
            /\ cpu[t].regs[0] \notin {TextAt(s, s.base), TextAt(s, s.base + 4),
                                       TextAt(s, s.base + 8)}
    /\ \A i \in 1..Len(results[t]) : results[t][i] = RetX30

\* C3 case: a call of getret() has returned the encoding of ret.
C3_Witness == \E t \in Cores : Len(results[t]) >= 1 /\ results[t][1] = RetX30

\* C5: all calls of getret(), one after the other in a thread or in parallel
\* in different threads, whatever copy of the function they run, return the
\* same word.
C5_Deterministic ==
  \A t \in Cores, u \in Cores :
    \A i \in 1..Len(results[t]), j \in 1..Len(results[u]) :
      results[t][i] = results[u][j]

\* C5 case: a thread has made two calls and another thread one, and is
\* inside a further call.
C5_Witness ==
  \E t \in Cores, u \in Cores :
    /\ t # u
    /\ Len(results[t]) = 2 /\ Len(results[u]) >= 1
    /\ phase[u] = "run" /\ cpu[u].run

\* C9 as stated: label L is placed immediately after the ret and the load
\* reads the word 4 bytes before L.
C9_LabelAfterRet ==
  \A t \in Cores :
    cpu[t].ldaddr # -1 =>
      /\ LabelAddr(cpu[t].site) = EmbeddedRet(cpu[t].site) + 4
      /\ cpu[t].ldaddr = LabelAddr(cpu[t].site) - 4

\* C9 amended: label L is placed at the ret (immediately before it), adr
\* computes the address of L and the load reads the word at L itself, offset
\* 0, that word being the ret.
C9_LabelAtRet ==
  \A t \in Cores :
    phase[t] = "run" =>
    LET s == cpu[t].site
        n == Len(cpu[t].executed)
    IN /\ (n \in 1..3) => cpu[t].regs[s.x1] = <<LabelAddr(s)>>
       /\ cpu[t].ldaddr # -1 =>
            /\ LabelAddr(s) = EmbeddedRet(s)
            /\ cpu[t].ldaddr = LabelAddr(s)
            /\ OpAt(s, cpu[t].ldaddr) = "ret"
            /\ (n \in 2..3) => cpu[t].regs[s.x2] = TextAt(s, LabelAddr(s))

\* C9 case: the load of the sequence has been executed.
C9_Witness ==
  \E t \in Cores :
    /\ cpu[t].run /\ phase[t] = "run"
    /\ Len(cpu[t].executed) = 2
    /\ cpu[t].ldaddr = EmbeddedRet(cpu[t].site)

\* C10: a call of getret() executes adr, ldr, b and then the code after the
\* second label, never the ret between the labels; it is back in its caller
\* after these three and the one or two instructions of "return r", with the
\* loaded word as its value.
C10_SkipsEmbeddedRet ==
  \A t \in Cores :
    phase[t] = "run" =>
      LET s == cpu[t].site
          ex == cpu[t].executed
      IN /\ \A i \in 1..Len(ex) : ex[i] # EmbeddedRet(s)
         /\ Len(ex) <= 3 + Len(Epilogue(s))
         /\ \A i \in 1..Len(ex) :
              /\ i <= 3 => ex[i] = s.base + (4 * (i - 1))
              /\ i > 3 => ex[i] = s.base + (4 * i)
         /\ Len(ex) = 3 =>
              <<OpAt(s, ex[1]), OpAt(s, ex[2]), OpAt(s, ex[3])>> = <<"adr", "ldr", "b">>
         /\ ~cpu[t].run =>
              /\ Len(ex) = 3 + Len(Epilogue(s))
              /\ cpu[t].ppc = CallerCtx.lr
              /\ cpu[t].regs[0] = TextAt(s, cpu[t].ldaddr)

\* C10 case: a call has reached its return, five instructions executed.
C10_Witness ==
  \E t \in Cores : Returning(t) /\ Len(cpu[t].executed) = 5

====
